---- MODULE Spec2Model ----
(***************************************************************************)
(* The PhoneValidator island (islands/PhoneValidator.tsx, kept here as     *)
(* src/unnamed/part_001): a form with a phone-number input, a strict-mode  *)
(* checkbox, a number-type filter, and the buttons Validate and Clear.     *)
(* The phone-number engine (intl-tel-input) is an external collaborator:   *)
(* what its accessors return is an input of handleValidate, drawn from     *)
(* EngineReadings.  The component's own state is the signals, the two      *)
(* refs, the engine instances it created and the effects Preact still has  *)
(* to run.                                                                 *)
(*                                                                         *)
(* Scheduling, as Preact does it: an event handler and the re-render its   *)
(* signal writes cause are one step (the render is queued as a microtask); *)
(* a useEffect callback whose dependencies changed runs later, after       *)
(* paint (FlushEffects), or at the start of the next render of the         *)
(* component if that comes first (Rerender).                               *)
(*                                                                         *)
(* src/routes/index.tsx holds the page followed by an earlier copy of the  *)
(* island (other error table, type keys read from a window global).  The   *)
(* page imports ../islands/PhoneValidator.tsx, and that file is what is    *)
(* modelled here.                                                          *)
(***************************************************************************)
EXTENDS Integers, Sequences, FiniteSets, TLC

\* Bounds of the model.
MaxInstances == 4   \* engine instances the component may create in one run

null == [null |-> TRUE]

---------------------------------------------------------------------------
\* Tables of the component.

NumberType ==
  [ FIXED_LINE |-> 0, MOBILE |-> 1, FIXED_LINE_OR_MOBILE |-> 2, TOLL_FREE |-> 3,
    PREMIUM_RATE |-> 4, SHARED_COST |-> 5, VOIP |-> 6, PERSONAL_NUMBER |-> 7,
    PAGER |-> 8, UAN |-> 9, VOICEMAIL |-> 10, UNKNOWN |-> -1 ]

numberTypeLabels ==
  (NumberType.FIXED_LINE :> "Fixed Line") @@
  (NumberType.MOBILE :> "Mobile") @@
  (NumberType.FIXED_LINE_OR_MOBILE :> "Fixed Line or Mobile") @@
  (NumberType.TOLL_FREE :> "Toll Free") @@
  (NumberType.PREMIUM_RATE :> "Premium Rate") @@
  (NumberType.SHARED_COST :> "Shared Cost") @@
  (NumberType.VOIP :> "VoIP") @@
  (NumberType.PERSONAL_NUMBER :> "Personal Number") @@
  (NumberType.PAGER :> "Pager") @@
  (NumberType.UAN :> "UAN") @@
  (NumberType.VOICEMAIL :> "Voicemail") @@
  (NumberType.UNKNOWN :> "Unknown")

NumberFormat_swapped == [ E164 |-> 0, INTERNATIONAL |-> 2, NATIONAL |-> 1, RFC3966 |-> 3 ]

NumberFormat == [ E164 |-> 0, INTERNATIONAL |-> 1, NATIONAL |-> 2, RFC3966 |-> 3 ]

errorMessages ==
  (1 :> "Invalid country code") @@
  (2 :> "Number too short") @@
  (3 :> "Number too long") @@
  (4 :> "Not a number") @@
  (5 :> "Invalid length") @@
  (-99 :> "Validation unavailable")

---------------------------------------------------------------------------
\* JavaScript expressions the handlers use.  A value that may be undefined
\* is a sequence: <<>> is undefined, <<v>> is the value v.

\* table[key]
Lookup(table, key) == IF key \in DOMAIN table THEN <<table[key]>> ELSE <<>>

\* v || d, for a string v that may be undefined: d replaces undefined and "".
Or(v, d) == IF v = <<>> \/ v[1] = "" THEN d ELSE v[1]

\* iso2?.toUpperCase(), on the country codes the model draws from.
toUpperCase(v) ==
  IF v = <<>> THEN <<>>
  ELSE << CASE v[1] = "us" -> "US"
            [] v[1] = "gb" -> "GB"
            [] OTHER -> v[1] >>

---------------------------------------------------------------------------
\* The engine, as handleValidate sees it.  A reading is what the accessors
\* of the live instance return for the text now in the input.

Formatted ==
  [ E164 |-> "+15551234567", INTERNATIONAL |-> "+1 555-123-4567",
    NATIONAL |-> "(555) 123-4567", RFC3966 |-> "tel:+1-555-123-4567" ]

Unformatted == [ E164 |-> "", INTERNATIONAL |-> "", NATIONAL |-> "", RFC3966 |-> "" ]

UnitedStates == [iso2 |-> <<"us">>, name |-> <<"United States">>]

\* getSelectedCountryData() when no country is selected: {}.
NoCountry == [iso2 |-> <<>>, name |-> <<>>]

\* Error codes: the six of the table, and two that are not in it.
ErrorCodes == {1, 2, 3, 4, 5, -99, 0, 999}

\* Type codes: the twelve of the table, and two that are not in it.
TypeCodes == (-1 .. 10) \cup {11, 27}

\* Readings with isValidNumber() false: every error code for a selected
\* country, and one reading with no country selected.
InvalidReadings ==
  [ isValidNumber : {FALSE}, validationError : ErrorCodes,
    selectedCountryData : {UnitedStates}, numberType : {NumberType.MOBILE},
    number : {Formatted} ]
  \cup
  [ isValidNumber : {FALSE}, validationError : {4},
    selectedCountryData : {NoCountry}, numberType : {NumberType.UNKNOWN},
    number : {Unformatted} ]

\* Readings with isValidNumber() true: every type code with the formatted
\* numbers, and two readings whose getNumber() returns "".
ValidReadings ==
  [ isValidNumber : {TRUE}, validationError : {0},
    selectedCountryData : {UnitedStates}, numberType : TypeCodes,
    number : {Formatted} ]
  \cup
  [ isValidNumber : {TRUE}, validationError : {0},
    selectedCountryData : {NoCountry},
    numberType : {NumberType.MOBILE, NumberType.TOLL_FREE},
    number : {Unformatted} ]

EngineReadings == InvalidReadings \cup ValidReadings

\* iti.getNumber(format): the engine decodes the libphonenumber format ID.
getNumber(raw, format) ==
  CASE format = 0 -> raw.number.E164
    [] format = 1 -> raw.number.INTERNATIONAL
    [] format = 2 -> raw.number.NATIONAL
    [] format = 3 -> raw.number.RFC3966

\* Texts the user may have in the input.
InputTexts == {"", "5551234567"}

NumberTypeFilters == {"any", "mobile", "fixed_line"}

---------------------------------------------------------------------------
\* State of the component.

VARIABLES
  strictMode,        \* signal: the strict-mode checkbox
  numberTypeFilter,  \* signal: the number-type select
  result,            \* signal: null or the ValidationResult shown
  isLoading,         \* signal: TRUE until the mount effect has run
  inputRef,          \* inputRef.current is the input element (TRUE) or null (FALSE)
  inputValue,        \* inputRef.current.value
  itiRef,            \* itiRef.current: 0 is null, else an index of instances
  instances,         \* every engine instance created: its strictMode option and
                     \* how many times destroy() was called on it
  mountIti,          \* the const iti of the mount effect's closure (0: not run)
  alive,             \* the component is mounted in the page
  pendingEffects,    \* the useEffect callbacks Preact has still to run
  call,              \* history: what the last handleValidate that passed its
                     \* guard read (null when there is none, or after Clear)
  justValidated,     \* history: the last action was such a handleValidate
  returnedEarly      \* history: the last action was a handleValidate that
                     \* returned at its guard

vars == << strictMode, numberTypeFilter, result, isLoading, inputRef, inputValue,
           itiRef, instances, mountIti, alive, pendingEffects, call, justValidated,
           returnedEarly >>

\* The state of the component proper, without the history variables.
state == << strictMode, numberTypeFilter, result, isLoading, inputRef, inputValue,
            itiRef, instances, mountIti, alive, pendingEffects >>

---------------------------------------------------------------------------
\* Engine instances and the two effects.

\* intlTelInput(inputRef.current, {..., strictMode: strictMode.value})
intlTelInput(strict) == [strictMode |-> strict, destroyed |-> 0]

\* instance.destroy()
destroy(insts, i) == [insts EXCEPT ![i].destroyed = @ + 1]

\* The engine-related part of the state, as the effects transform it.
EngineState == [itiRef |-> itiRef, instances |-> instances,
                mountIti |-> mountIti, isLoading |-> isLoading]

\* useEffect(() => {...}, []): create the instance, publish it, end loading.
mountEffect(s, strict) ==
  IF ~inputRef THEN s
  ELSE LET iti == Len(s.instances) + 1 IN
       [s EXCEPT !.instances = Append(@, intlTelInput(strict)),
                 !.itiRef = iti,
                 !.mountIti = iti,
                 !.isLoading = FALSE]

\* useEffect(() => {...}, [strictMode.value]): replace the instance.
strictModeEffect(s, strict) ==
  IF s.itiRef # 0 /\ inputRef
  THEN LET destroyed == destroy(s.instances, s.itiRef) IN
       [s EXCEPT !.instances = Append(destroyed, intlTelInput(strict)),
                 !.itiRef = Len(destroyed) + 1]
  ELSE s

\* Preact runs the pending effects of a component in hook order; each reads
\* strictMode.value when it runs.
flush(s, pending, strict) ==
  LET s1 == IF "mount" \in pending THEN mountEffect(s, strict) ELSE s
  IN IF "strictMode" \in pending THEN strictModeEffect(s1, strict) ELSE s1

SetEngineState(s) ==
  /\ itiRef' = s.itiRef
  /\ instances' = s.instances
  /\ mountIti' = s.mountIti
  /\ isLoading' = s.isLoading

\* A render of the component after a signal it reads was written: effects
\* left pending by the previous render run first, then the effect whose
\* dependency [strictMode.value] changed is queued.
Rerender(strict, depChanged) ==
  /\ SetEngineState(flush(EngineState, pendingEffects, strict))
  /\ pendingEffects' = IF depChanged THEN {"strictMode"} ELSE {}

\* The effects queued by the last render run after paint.
FlushEffects ==
  /\ alive
  /\ pendingEffects # {}
  /\ SetEngineState(flush(EngineState, pendingEffects, strictMode))
  /\ pendingEffects' = {}
  /\ justValidated' = FALSE
  /\ returnedEarly' = FALSE
  /\ UNCHANGED << strictMode, numberTypeFilter, result, inputRef, inputValue,
                  alive, call >>

---------------------------------------------------------------------------
\* handleValidate.

\* numberData.iso2?.toUpperCase() || ""
countryCode(numberData) == Or(toUpperCase(numberData.iso2), "")

\* numberData.name || ""
countryName(numberData) == Or(numberData.name, "")

\* Variant: the lookup without its fallback.
lookupErrorMessage_noFallback(errorCode) == Or(Lookup(errorMessages, errorCode), "")

\* errorMessages[errorCode] || "Invalid number"
lookupErrorMessage(errorCode) == Or(Lookup(errorMessages, errorCode), "Invalid number")

\* Variant: the lookup without its fallback.
label_noFallback(numberType) == Or(Lookup(numberTypeLabels, numberType), "")

\* numberTypeLabels[numberType] || "Unknown"
label(numberType) == Or(Lookup(numberTypeLabels, numberType), "Unknown")

\* Variant: the ambiguous type does not count as mobile.
isMobile_only(numberType) == numberType = NumberType.MOBILE

isMobile(numberType) ==
  numberType = NumberType.MOBILE \/ numberType = NumberType.FIXED_LINE_OR_MOBILE

\* Variant: the test of isMobile, copied.
isFixedLine_copied(numberType) ==
  numberType = NumberType.MOBILE \/ numberType = NumberType.FIXED_LINE_OR_MOBILE

isFixedLine(numberType) ==
  numberType = NumberType.FIXED_LINE \/ numberType = NumberType.FIXED_LINE_OR_MOBILE

\* Variant: the formatted numbers and the label are filled in as in the
\* other branches.
basicInvalid_populated(raw, number) ==
  [ isValid |-> FALSE,
    number |-> number,
    countryCode |-> countryCode(raw.selectedCountryData),
    countryName |-> countryName(raw.selectedCountryData),
    nationalNumber |-> Or(<<getNumber(raw, NumberFormat.NATIONAL)>>, ""),
    internationalNumber |-> Or(<<getNumber(raw, NumberFormat.INTERNATIONAL)>>, ""),
    numberType |-> label(raw.numberType),
    errorMessage |-> lookupErrorMessage(raw.validationError) ]

\* The record stored when the engine reports the number invalid.
basicInvalid(raw, number) ==
  [ isValid |-> FALSE,
    number |-> number,
    countryCode |-> countryCode(raw.selectedCountryData),
    countryName |-> countryName(raw.selectedCountryData),
    nationalNumber |-> "",
    internationalNumber |-> "",
    numberType |-> "",
    errorMessage |-> lookupErrorMessage(raw.validationError) ]

\* Variant: isValid left as in the accepting branch.
mobileMismatch_valid(raw, number) ==
  [ isValid |-> TRUE,
    number |-> number,
    countryCode |-> countryCode(raw.selectedCountryData),
    countryName |-> countryName(raw.selectedCountryData),
    nationalNumber |-> Or(<<getNumber(raw, NumberFormat.NATIONAL)>>, ""),
    internationalNumber |-> Or(<<getNumber(raw, NumberFormat.INTERNATIONAL)>>, ""),
    numberType |-> label(raw.numberType),
    errorMessage |-> "Expected mobile number, got " \o label(raw.numberType) ]

\* The record stored when the filter is "mobile" and the number is not mobile.
mobileMismatch(raw, number) ==
  [ isValid |-> FALSE,
    number |-> number,
    countryCode |-> countryCode(raw.selectedCountryData),
    countryName |-> countryName(raw.selectedCountryData),
    nationalNumber |-> Or(<<getNumber(raw, NumberFormat.NATIONAL)>>, ""),
    internationalNumber |-> Or(<<getNumber(raw, NumberFormat.INTERNATIONAL)>>, ""),
    numberType |-> label(raw.numberType),
    errorMessage |-> "Expected mobile number, got " \o label(raw.numberType) ]

\* The record stored when the filter is "fixed_line" and the number is not
\* a fixed line.
fixedLineMismatch(raw, number) ==
  [ isValid |-> FALSE,
    number |-> number,
    countryCode |-> countryCode(raw.selectedCountryData),
    countryName |-> countryName(raw.selectedCountryData),
    nationalNumber |-> Or(<<getNumber(raw, NumberFormat.NATIONAL)>>, ""),
    internationalNumber |-> Or(<<getNumber(raw, NumberFormat.INTERNATIONAL)>>, ""),
    numberType |-> label(raw.numberType),
    errorMessage |-> "Expected fixed line number, got " \o label(raw.numberType) ]

\* The record stored otherwise: it has no errorMessage.
accepted(raw, number) ==
  [ isValid |-> TRUE,
    number |-> number,
    countryCode |-> countryCode(raw.selectedCountryData),
    countryName |-> countryName(raw.selectedCountryData),
    nationalNumber |-> Or(<<getNumber(raw, NumberFormat.NATIONAL)>>, ""),
    internationalNumber |-> Or(<<getNumber(raw, NumberFormat.INTERNATIONAL)>>, ""),
    numberType |-> label(raw.numberType) ]

\* Variant: the mobile test applied to every filter but "fixed_line".
validationResult_anyAsMobile(raw, number, filter) ==
  IF ~raw.isValidNumber THEN basicInvalid(raw, number)
  ELSE IF filter # "fixed_line" /\ ~isMobile(raw.numberType)
       THEN mobileMismatch(raw, number)
  ELSE IF filter = "fixed_line" /\ ~isFixedLine(raw.numberType)
       THEN fixedLineMismatch(raw, number)
  ELSE accepted(raw, number)

\* Variant: Validate on a number whose result is shown hides the result.
validationResult_toggles(raw, number, filter) ==
  IF result # null /\ result.number = number THEN null
  ELSE IF ~raw.isValidNumber THEN basicInvalid(raw, number)
  ELSE IF filter # "any" /\ filter = "mobile" /\ ~isMobile(raw.numberType)
       THEN mobileMismatch(raw, number)
  ELSE IF filter # "any" /\ filter = "fixed_line" /\ ~isFixedLine(raw.numberType)
       THEN fixedLineMismatch(raw, number)
  ELSE accepted(raw, number)

\* The branches of handleValidate after its guard: the value it assigns to
\* result.value, for the engine reading raw, the text of the input and the
\* filter selected.
validationResult(raw, number, filter) ==
  IF ~raw.isValidNumber THEN basicInvalid(raw, number)
  ELSE IF filter # "any" /\ filter = "mobile" /\ ~isMobile(raw.numberType)
       THEN mobileMismatch(raw, number)
  ELSE IF filter # "any" /\ filter = "fixed_line" /\ ~isFixedLine(raw.numberType)
       THEN fixedLineMismatch(raw, number)
  ELSE accepted(raw, number)

\* Variant: a Validate taken before the engine is ready stores a result
\* that says so, where the handler returns.
handleValidate_reportsNotReady(raw) ==
  IF itiRef = 0 \/ ~inputRef \/ isLoading
  THEN /\ result' = [ isValid |-> FALSE,
                      number |-> inputValue,
                      countryCode |-> "",
                      countryName |-> "",
                      nationalNumber |-> "",
                      internationalNumber |-> "",
                      numberType |-> "",
                      errorMessage |-> "Validation unavailable" ]
       /\ returnedEarly' = TRUE
       /\ UNCHANGED << strictMode, numberTypeFilter, isLoading, inputRef, inputValue,
                       itiRef, instances, mountIti, alive, pendingEffects, call,
                       justValidated >>
  ELSE /\ result' = validationResult(raw, inputValue, numberTypeFilter)
       /\ call' = [ raw |-> raw, number |-> inputValue, filter |-> numberTypeFilter,
                    strictMode |-> strictMode,
                    engineStrictMode |-> instances[itiRef].strictMode,
                    repeated |-> FALSE,
                    previous |-> null ]
       /\ justValidated' = TRUE
       /\ returnedEarly' = FALSE
       /\ Rerender(strictMode, FALSE)
       /\ UNCHANGED << strictMode, numberTypeFilter, inputRef, inputValue, alive >>

\* The Validate button, with the engine reading raw.  The handler reads the
\* instance itiRef.current as it is now; the write of result.value then
\* re-renders the component.
handleValidate(raw) ==
  IF itiRef = 0 \/ ~inputRef \/ isLoading
  THEN /\ returnedEarly' = TRUE
       /\ UNCHANGED << state, call, justValidated >>
  ELSE /\ result' = validationResult(raw, inputValue, numberTypeFilter)
       /\ LET repeated == /\ justValidated
                          /\ call # null
                          /\ call.raw = raw
                          /\ call.number = inputValue
                          /\ call.filter = numberTypeFilter
          IN call' = [ raw |-> raw, number |-> inputValue, filter |-> numberTypeFilter,
                       strictMode |-> strictMode,
                       engineStrictMode |-> instances[itiRef].strictMode,
                       repeated |-> repeated,
                       previous |-> IF repeated THEN result ELSE null ]
       /\ justValidated' = TRUE
       /\ returnedEarly' = FALSE
       /\ Rerender(strictMode, FALSE)
       /\ UNCHANGED << strictMode, numberTypeFilter, inputRef, inputValue, alive >>

\* The Clear button.
handleClear ==
  /\ alive
  /\ inputValue' = IF inputRef THEN "" ELSE inputValue
  /\ result' = null
  /\ call' = null
  /\ justValidated' = FALSE
  /\ returnedEarly' = FALSE
  /\ IF result # null
     THEN Rerender(strictMode, FALSE)
     ELSE UNCHANGED << itiRef, instances, mountIti, isLoading, pendingEffects >>
  /\ UNCHANGED << strictMode, numberTypeFilter, inputRef, alive >>

\* onChange of the strict-mode checkbox.
StrictModeChange ==
  /\ alive
  /\ Len(instances) + Cardinality(pendingEffects) + 1 <= MaxInstances
  /\ strictMode' = ~strictMode
  /\ Rerender(~strictMode, TRUE)
  /\ justValidated' = FALSE
  /\ returnedEarly' = FALSE
  /\ UNCHANGED << numberTypeFilter, result, inputRef, inputValue, alive, call >>

\* Variant: choosing another filter drops the result shown.
NumberTypeFilterChange_resets(value) ==
  /\ alive
  /\ value # numberTypeFilter
  /\ numberTypeFilter' = value
  /\ result' = null
  /\ Rerender(strictMode, FALSE)
  /\ justValidated' = FALSE
  /\ returnedEarly' = FALSE
  /\ UNCHANGED << strictMode, inputRef, inputValue, alive, call >>

\* onChange of the number-type select.
NumberTypeFilterChange(value) ==
  /\ alive
  /\ value # numberTypeFilter
  /\ numberTypeFilter' = value
  /\ Rerender(strictMode, FALSE)
  /\ justValidated' = FALSE
  /\ returnedEarly' = FALSE
  /\ UNCHANGED << strictMode, result, inputRef, inputValue, alive, call >>

\* The user edits the text of the input.
TypeNumber(text) ==
  /\ alive
  /\ inputRef
  /\ text # inputValue
  /\ inputValue' = text
  /\ justValidated' = FALSE
  /\ returnedEarly' = FALSE
  /\ UNCHANGED << strictMode, numberTypeFilter, result, isLoading, inputRef, itiRef,
                  instances, mountIti, alive, pendingEffects, call >>

\* The component is removed from the page: the cleanup of the mount effect
\* runs (if that effect ran), effects still pending are dropped and the ref
\* of the input is reset.
Unmount ==
  /\ alive
  /\ alive' = FALSE
  /\ instances' = IF mountIti # 0 THEN destroy(instances, mountIti) ELSE instances
  /\ pendingEffects' = {}
  /\ inputRef' = FALSE
  /\ justValidated' = FALSE
  /\ returnedEarly' = FALSE
  /\ UNCHANGED << strictMode, numberTypeFilter, result, isLoading, inputValue,
                  itiRef, mountIti, call >>

---------------------------------------------------------------------------

\* After the first render: the signals hold their initial values, the input
\* element is in the page, both effects wait to run.
Init ==
  /\ strictMode = FALSE
  /\ numberTypeFilter = "any"
  /\ result = null
  /\ isLoading = TRUE
  /\ inputRef = TRUE
  /\ inputValue = ""
  /\ itiRef = 0
  /\ instances = << >>
  /\ mountIti = 0
  /\ alive = TRUE
  /\ pendingEffects = {"mount", "strictMode"}
  /\ call = null
  /\ justValidated = FALSE
  /\ returnedEarly = FALSE

Next ==
  \/ FlushEffects
  \/ \E raw \in EngineReadings : handleValidate(raw)
  \/ handleClear
  \/ StrictModeChange
  \/ \E value \in NumberTypeFilters : NumberTypeFilterChange(value)
  \/ \E text \in InputTexts : TypeNumber(text)
  \/ Unmount

Spec == Init /\ [][Next]_vars

---------------------------------------------------------------------------
\* Properties.  validated: a result is stored and call holds what the
\* handleValidate that stored it read.

validated == call # null /\ result # null

engineValid == validated /\ call.raw.isValidNumber

engineInvalid == validated /\ ~call.raw.isValidNumber

\* errorMessage is present: the record has the field and it is not "".
hasErrorMessage(r) == "errorMessage" \in DOMAIN r /\ r.errorMessage # ""

\* C1: whenever a result is stored, it has an errorMessage if and only if
\* its isValid is false.
C1_ErrorMessageIffInvalid ==
  result # null => (hasErrorMessage(result) <=> ~result.isValid)

\* A type-mismatch result is stored: invalid, with its message.
C1_Witness ==
  /\ engineValid
  /\ call.filter = "mobile"
  /\ ~result.isValid
  /\ hasErrorMessage(result)

\* C2: for an engine-valid number the stored result is invalid exactly when
\* the filter is "mobile" and the type is neither MOBILE nor
\* FIXED_LINE_OR_MOBILE, or the filter is "fixed_line" and the type is
\* neither FIXED_LINE nor FIXED_LINE_OR_MOBILE; the message is then
\* "Expected mobile number, got " (resp. "Expected fixed line number, got ")
\* followed by the label of the type, and nationalNumber,
\* internationalNumber and numberType are populated from the engine.
C2_TypeMismatch ==
  engineValid =>
    LET t == call.raw.numberType
        notMobile == /\ call.filter = "mobile"
                     /\ t \notin {NumberType.MOBILE, NumberType.FIXED_LINE_OR_MOBILE}
        notFixedLine == /\ call.filter = "fixed_line"
                        /\ t \notin {NumberType.FIXED_LINE, NumberType.FIXED_LINE_OR_MOBILE}
    IN /\ ~result.isValid <=> (notMobile \/ notFixedLine)
       /\ notMobile =>
            /\ hasErrorMessage(result)
            /\ result.errorMessage = "Expected mobile number, got " \o label(t)
       /\ notFixedLine =>
            /\ hasErrorMessage(result)
            /\ result.errorMessage = "Expected fixed line number, got " \o label(t)
       /\ (notMobile \/ notFixedLine) =>
            /\ result.nationalNumber = call.raw.number.NATIONAL
            /\ result.internationalNumber = call.raw.number.INTERNATIONAL
            /\ result.numberType = label(t)

\* A mobile number was validated under the fixed-line filter and rejected.
C2_Witness ==
  /\ engineValid
  /\ call.filter = "fixed_line"
  /\ call.raw.numberType = NumberType.MOBILE
  /\ result.errorMessage = "Expected fixed line number, got Mobile"
  /\ result.nationalNumber = "(555) 123-4567"

\* C3: under the filter "any", a number the engine reports valid is stored
\* with isValid true and without an errorMessage, whatever its type.
C3_AnyNeverRejects ==
  (engineValid /\ call.filter = "any") =>
    /\ result.isValid
    /\ "errorMessage" \notin DOMAIN result

\* A toll-free number was validated under "any" and accepted.
C3_Witness ==
  /\ engineValid
  /\ call.filter = "any"
  /\ call.raw.numberType = NumberType.TOLL_FREE
  /\ result.isValid

\* C4: an engine-valid number of type FIXED_LINE_OR_MOBILE is accepted,
\* without an errorMessage, under every filter.
C4_FixedLineOrMobileAccepted ==
  (engineValid /\ call.raw.numberType = NumberType.FIXED_LINE_OR_MOBILE) =>
    /\ result.isValid
    /\ "errorMessage" \notin DOMAIN result

\* A FIXED_LINE_OR_MOBILE number was validated under the mobile filter.
C4_Witness ==
  /\ engineValid
  /\ call.raw.numberType = NumberType.FIXED_LINE_OR_MOBILE
  /\ call.filter = "mobile"
  /\ result.isValid

\* C5: when the engine reports the number invalid, the stored result has
\* isValid false and empty nationalNumber, internationalNumber and
\* numberType, for every filter and strict-mode value.
C5_BasicInvalidEmpty ==
  engineInvalid =>
    /\ ~result.isValid
    /\ result.nationalNumber = ""
    /\ result.internationalNumber = ""
    /\ result.numberType = ""

\* An invalid number for which the engine would format was validated in
\* strict mode under a filter.
C5_Witness ==
  /\ engineInvalid
  /\ call.raw.number.NATIONAL # ""
  /\ call.filter = "mobile"
  /\ call.strictMode
  /\ result.nationalNumber = ""

\* C6, as stated: for an engine-valid number the output nationalNumber,
\* internationalNumber and numberType are the engine's values verbatim.
C6_Verbatim ==
  engineValid =>
    /\ result.nationalNumber = call.raw.number.NATIONAL
    /\ result.internationalNumber = call.raw.number.INTERNATIONAL
    /\ result.numberType = ToString(call.raw.numberType)

\* C6, amended: for an engine-valid number, accepted or rejected by the
\* filter, nationalNumber and internationalNumber are the engine's NATIONAL
\* and INTERNATIONAL formats verbatim, and numberType is the display label
\* of the engine's type code ("Unknown" for a code the table does not hold).
C6_VerbatimFormats ==
  engineValid =>
    /\ result.nationalNumber = call.raw.number.NATIONAL
    /\ result.internationalNumber = call.raw.number.INTERNATIONAL
    /\ result.numberType =
         IF call.raw.numberType \in DOMAIN numberTypeLabels
         THEN numberTypeLabels[call.raw.numberType]
         ELSE "Unknown"

\* A formatted number was rejected by the filter and still carries the
\* engine's formats.
C6_Witness ==
  /\ engineValid
  /\ ~result.isValid
  /\ call.raw.number.NATIONAL = "(555) 123-4567"
  /\ result.nationalNumber = "(555) 123-4567"
  /\ result.internationalNumber = "+1 555-123-4567"

\* C7: when the engine reports the number invalid, errorMessage is the
\* string the table holds for the engine's error code (code 2: "Number too
\* short"), "Invalid number" for a code the table does not hold, and never
\* empty or absent.
C7_ErrorCodeMessage ==
  engineInvalid =>
    LET code == call.raw.validationError IN
    /\ hasErrorMessage(result)
    /\ code \in DOMAIN errorMessages => result.errorMessage = errorMessages[code]
    /\ code \notin DOMAIN errorMessages => result.errorMessage = "Invalid number"
    /\ code = 2 => result.errorMessage = "Number too short"

\* The engine gave the code 999, which the table does not hold.
C7_Witness ==
  /\ engineInvalid
  /\ call.raw.validationError = 999
  /\ result.errorMessage = "Invalid number"

\* C8: for an engine-valid number, numberType is the display string the
\* table holds for the type, "Unknown" for a code the table does not hold;
\* a number of type UNKNOWN is rejected under the mobile and the fixed-line
\* filter with "Unknown" in the message.
C8_TypeLabel ==
  engineValid =>
    LET t == call.raw.numberType IN
    /\ t \in DOMAIN numberTypeLabels => result.numberType = numberTypeLabels[t]
    /\ t \notin DOMAIN numberTypeLabels => result.numberType = "Unknown"
    /\ t = NumberType.MOBILE => result.numberType = "Mobile"
    /\ t = NumberType.FIXED_LINE_OR_MOBILE => result.numberType = "Fixed Line or Mobile"
    /\ (t = NumberType.UNKNOWN /\ call.filter = "mobile") =>
         /\ ~result.isValid
         /\ result.errorMessage = "Expected mobile number, got Unknown"
    /\ (t = NumberType.UNKNOWN /\ call.filter = "fixed_line") =>
         /\ ~result.isValid
         /\ result.errorMessage = "Expected fixed line number, got Unknown"

\* A type code the table does not hold was validated under a filter.
C8_Witness ==
  /\ engineValid
  /\ call.raw.numberType = 27
  /\ call.filter = "fixed_line"
  /\ result.numberType = "Unknown"
  /\ result.errorMessage = "Expected fixed line number, got Unknown"

C10_EngineHasCurrentStrictMode ==
  call # null => call.engineStrictMode = call.strictMode

\* The engine is not ready: no instance is published, or loading has not ended.
notReady == itiRef = 0 \/ isLoading

\* C11: no result is stored before the engine is ready, and a Validate taken
\* while itiRef.current is null, the input element is missing or isLoading
\* is true leaves result and all the rest of the component's state as it was.
C11_NotReadyNoResult ==
  /\ [](notReady => result = null)
  /\ [][returnedEarly' => UNCHANGED state]_vars

\* Validate was taken before the effects of the first render ran.
C11_Witness ==
  /\ returnedEarly
  /\ itiRef = 0
  /\ isLoading
  /\ inputRef
  /\ result = null

\* The instances on which destroy() was never called.
liveInstances == { i \in DOMAIN instances : instances[i].destroyed = 0 }

\* C12: at any time at most one engine instance is live, no instance is
\* destroyed more than once, and once the component is unmounted every
\* instance it created has been destroyed.
C12_InstanceLifecycle ==
  /\ Cardinality(liveInstances) <= 1
  /\ \A i \in DOMAIN instances : instances[i].destroyed <= 1
  /\ ~alive => liveInstances = {}

\* The fields of a ValidationResult that every stored record has.
requiredFields ==
  { "isValid", "number", "countryCode", "countryName", "nationalNumber",
    "internationalNumber", "numberType" }

\* The verdict for the reading and the filter that the last Validate read.
verdictAtValidate ==
  /\ call.raw.isValidNumber
  /\ call.filter = "mobile" =>
       call.raw.numberType \in {NumberType.MOBILE, NumberType.FIXED_LINE_OR_MOBILE}
  /\ call.filter = "fixed_line" =>
       call.raw.numberType \in {NumberType.FIXED_LINE, NumberType.FIXED_LINE_OR_MOBILE}

\* C13: a change of the number-type filter or of strict mode leaves result
\* as it is; result changes only in a Validate, which stores a full record,
\* and in a Clear, which sets it to null and empties the input; so a stored
\* result has the verdict of the filter selected at the last Validate.
C13_ResultWrittenByValidateAndClear ==
  /\ [][(numberTypeFilter' # numberTypeFilter \/ strictMode' # strictMode)
          => result' = result]_vars
  /\ [][result' # result =>
          \/ /\ result' = null
             /\ inputValue' = ""
          \/ /\ justValidated'
             /\ requiredFields \subseteq DOMAIN result'
             /\ result'.number = inputValue
             /\ numberTypeFilter' = numberTypeFilter
             /\ call'.filter = numberTypeFilter]_vars
  /\ [](result # null => (call # null /\ result.isValid = verdictAtValidate))

\* A number rejected under the mobile filter is still shown as rejected
\* after the filter was set to "any" and strict mode was switched on.
C13_Witness ==
  /\ result # null
  /\ call.filter = "mobile"
  /\ ~call.strictMode
  /\ ~result.isValid
  /\ call.raw.isValidNumber
  /\ numberTypeFilter = "any"
  /\ strictMode

====
